---------------------------- MODULE Spec2Model ----------------------------
(***************************************************************************)
(* A model of src/redact.py: censor_file(file_path, sensitive_patterns).   *)
(*                                                                         *)
(* Text is a sequence of one-character strings.  The file holds bytes; the *)
(* text-mode open of Python translates line endings on read (universal     *)
(* newlines) and on write ("\n" becomes os.linesep), which Decode and      *)
(* Encode model.  re.sub is modelled for the dialect                       *)
(*    literal characters, \x escapes of punctuation, ".", "(...)" groups   *)
(*    and "[...]" character sets without ranges or negation,               *)
(* in which every pattern matches strings of one fixed length.             *)
(***************************************************************************)
EXTENDS Naturals, Sequences, FiniteSets

(***************************************************************************)
(* Bounds of the model.                                                    *)
(***************************************************************************)
MaxLen == 2          \* longest content drawn from ContentAlphabet
MaxPatterns == 2     \* longest pattern list drawn from Pool
MaxCalls == 2        \* censor_file calls in a row by the sequential caller
MaxPartial == 2      \* longest prefix a failing write leaves behind
MaxFileLen == 60     \* longest file censor_file is called on

Procs == {1, 2}

(***************************************************************************)
(* The replacement literal of re.sub(pattern, '[REDACTED]', content).      *)
(***************************************************************************)
Placeholder == <<"[", "R", "E", "D", "A", "C", "T", "E", "D", "]">>

Min(a, b) == IF a < b THEN a ELSE b

\* The concatenation of the sequences pieces[lo], ..., pieces[hi].
RECURSIVE FlattenRange(_, _, _)
FlattenRange(pieces, lo, hi) ==
    IF lo > hi THEN <<>>
    ELSE IF lo = hi THEN pieces[lo]
    ELSE LET mid == (lo + hi) \div 2
         IN  FlattenRange(pieces, lo, mid) \o FlattenRange(pieces, mid + 1, hi)

Flatten(pieces) == FlattenRange(pieces, 1, Len(pieces))

(***************************************************************************)
(* open(file_path, 'r').read(): universal newlines, "\r\n" and "\r" are    *)
(* read as "\n".                                                           *)
(***************************************************************************)
Decode(b) ==
    LET Kept(i) == ~(b[i] = "\n" /\ i > 1 /\ b[i - 1] = "\r")
        at == SelectSeq([i \in 1..Len(b) |-> i], Kept)
    IN  [j \in 1..Len(at) |-> IF b[at[j]] = "\r" THEN "\n" ELSE b[at[j]]]

(***************************************************************************)
(* open(file_path, 'w').write(content): "\n" is written as os.linesep.     *)
(***************************************************************************)
Encode(t, sep) ==
    Flatten([i \in 1..Len(t) |-> IF t[i] = "\n" THEN sep ELSE <<t[i]>>])

LineSeps == {<<"\n">>, <<"\r", "\n">>}

(***************************************************************************)
(* re.compile: a compiled pattern is a sequence of atoms, each matching    *)
(* one character; Invalid stands for re.error.                             *)
(***************************************************************************)
Invalid == [ok |-> FALSE, atoms |-> <<>>]

Lit(c) == [any |-> FALSE, set |-> {c}]

AnyChar == [any |-> TRUE, set |-> {}]

\* The index of the "]" closing the character set opened at k, 0 if none;
\* a "]" right after the "[" is a member of the set, not its end.
ClassEnd(p, k) ==
    LET ends == {j \in (k + 2)..Len(p) : p[j] = "]"}
    IN  IF ends = {} THEN 0
        ELSE CHOOSE j \in ends : \A e \in ends : j <= e

RECURSIVE Parse(_, _, _, _)
Parse(p, k, depth, acc) ==
    IF k > Len(p)
    THEN IF depth = 0 THEN [ok |-> TRUE, atoms |-> acc] ELSE Invalid
    ELSE CASE p[k] = "\\" ->
                IF k = Len(p) THEN Invalid
                ELSE Parse(p, k + 2, depth, Append(acc, Lit(p[k + 1])))
           [] p[k] = "(" -> Parse(p, k + 1, depth + 1, acc)
           [] p[k] = ")" ->
                IF depth = 0 THEN Invalid
                ELSE Parse(p, k + 1, depth - 1, acc)
           [] p[k] = "[" ->
                LET e == ClassEnd(p, k)
                IN  IF e = 0 THEN Invalid
                    ELSE Parse(p, e + 1, depth,
                               Append(acc, [any |-> FALSE,
                                            set |-> {p[j] : j \in (k + 1)..(e - 1)}]))
           [] p[k] = "." -> Parse(p, k + 1, depth, Append(acc, AnyChar))
           [] OTHER -> Parse(p, k + 1, depth, Append(acc, Lit(p[k])))

Compile(p) == Parse(p, 1, 0, <<>>)

\* "." matches any character but a newline (no re.DOTALL).
AtomMatches(a, c) == IF a.any THEN c # "\n" ELSE c \in a.set

MatchAt(atoms, s, i) ==
    /\ i + Len(atoms) - 1 <= Len(s)
    /\ \A j \in 1..Len(atoms) : AtomMatches(atoms[j], s[i + j - 1])

(***************************************************************************)
(* The scan of re.sub: the starts of the non-overlapping matches, found    *)
(* left to right: the leftmost match at or after i, then the search        *)
(* resumes at its end.  An empty pattern matches the empty string at every *)
(* position, the end included; matches one character long cannot overlap,  *)
(* so the scan finds every one of them.                                    *)
(***************************************************************************)
\* Scan with the search resuming one character after the end of a match.
RECURSIVE ScanFromSkipping(_, _, _)
ScanFromSkipping(atoms, s, i) ==
    LET found == {j \in i..Len(s) : MatchAt(atoms, s, j)}
    IN  IF found = {} THEN <<>>
        ELSE LET j == CHOOSE m \in found : \A o \in found : m <= o
             IN  <<j>> \o ScanFromSkipping(atoms, s, j + Len(atoms) + 1)

ScanSkipping(atoms, s) ==
    IF atoms = <<>> THEN [n \in 1..(Len(s) + 1) |-> n]
    ELSE ScanFromSkipping(atoms, s, 1)

RECURSIVE ScanFrom(_, _, _)
ScanFrom(atoms, s, i) ==
    LET found == {j \in i..Len(s) : MatchAt(atoms, s, j)}
    IN  IF found = {} THEN <<>>
        ELSE LET j == CHOOSE m \in found : \A o \in found : m <= o
             IN  <<j>> \o ScanFrom(atoms, s, j + Len(atoms))

Scan(atoms, s) ==
    LET Hit(i) == MatchAt(atoms, s, i)
    IN  IF atoms = <<>> THEN [n \in 1..(Len(s) + 1) |-> n]
        ELSE IF Len(atoms) = 1 THEN SelectSeq([i \in 1..Len(s) |-> i], Hit)
        ELSE ScanFrom(atoms, s, 1)

\* The sequence s with the matches starting at starts (each k long)
\* replaced by rep: at each position the replacement if a match starts
\* there, then the element unless a match covers it.
Build(s, rep, starts, k) ==
    LET S == {starts[n] : n \in 1..Len(starts)}
        Covered(i) == \E j \in S : j <= i /\ i < j + k
    IN  Flatten([i \in 1..(Len(s) + 1) |->
                   (IF i \in S THEN rep ELSE <<>>)
                   \o (IF i <= Len(s) /\ ~Covered(i) THEN <<s[i]>> ELSE <<>>)])

\* re.sub(pattern, '[REDACTED]', content) for a pattern that compiles.
Sub(atoms, s) == Build(s, Placeholder, Scan(atoms, s), Len(atoms))

\* The passes of the for loop one after the other, for patterns that compile.
RECURSIVE ApplyAll(_, _)
ApplyAll(ps, s) ==
    IF ps = <<>> THEN s
    ELSE ApplyAll(Tail(ps), Sub(Compile(ps[1]).atoms, s))

AllValid(ps) == \A i \in 1..Len(ps) : Compile(ps[i]).ok

(***************************************************************************)
(* The inputs: every content over ContentAlphabet up to MaxLen and the     *)
(* contents with line endings, each with every list over Pool up to        *)
(* MaxPatterns, and the cases of the specification's examples.             *)
(***************************************************************************)
Strings(A, n) == UNION {[1..k -> A] : k \in 0..n}

ContentAlphabet == {"a", "b", "["}

ContentCRLF == <<"a", "\r", "\n", "b">>
ContentCR == <<"a", "\r", "b">>
ContentLF == <<"a", "\n", "b">>
ContentAB == <<"A", "B">>
ContentKeys == <<"k", "e", "y", "=", "A", "B", "C", "1", "2", "3", " ", "a", "n", "d", " ", "t", "o", "k", "e", "n", "=", "X", "Y", "Z", "7", "8", "9">>
ContentSecret == <<"s", "e", "c", "r", "e", "t">>
ContentBracketRed == <<"[", "R", "E", "D">>
ContentAABracket == <<"a", "a", "[">>

PatA == <<"A">>
PatPlaceholderB == <<"\\", "[", "R", "E", "D", "A", "C", "T", "E", "D", "\\", "]", "B">>
PatABC123 == <<"A", "B", "C", "1", "2", "3">>
PatXYZ789 == <<"X", "Y", "Z", "7", "8", "9">>
PatSecret == <<"s", "e", "c", "r", "e", "t">>
PatRED == <<"R", "E", "D">>
PatABracket == <<"a", "\\", "[">>
PatClassAB == <<"[", "a", "b", "]">>
PatGroupA == <<"(", "a", ")">>
PatOpenParen == <<"(">>
PatEmpty == <<>>

PatDot == <<".">>

Pool == {<<"a">>, <<"b">>, <<"a", "a">>, PatABracket, PatClassAB, PatOpenParen}

Contents == Strings(ContentAlphabet, MaxLen) \cup {ContentCRLF, ContentCR, ContentLF}

ExampleCases ==
    { <<ContentAB, <<PatA, PatPlaceholderB>>>>,
      <<ContentKeys, <<PatABC123, PatXYZ789>>>>,
      <<ContentSecret, <<PatSecret>>>>,
      <<ContentBracketRed, <<PatRED>>>>,
      <<ContentAABracket, <<PatABracket>>>>,
      <<<<"a">>, <<PatEmpty>>>>,
      <<<<"a", "b">>, <<PatDot>>>>,
      <<ContentLF, <<PatDot>>>>,
      <<<<"a", "b">>, <<PatClassAB>>>>,
      <<<<"a", "b">>, <<PatGroupA, <<"b">>>>>>,
      <<<<"a", "b">>, <<<<"b">>, <<")">>>>>>,
      <<<<"a", "[">>, <<<<"[">>>>>>,
      <<<<"a", "b">>, <<<<"a", "\\">>>>>> }

Inputs == (Contents \X Strings(Pool, MaxPatterns)) \cup ExampleCases

\* What the path names: a regular file that can be read and written, one
\* that can only be read or only be written, nothing, or a directory.
Kinds == {"file", "readonly", "unreadable", "missing", "dir"}

\* Readable with the missing path opened as an empty file (a mode that
\* creates, such as 'a+').
ReadableLax(k) == k \in {"file", "readonly", "missing"}

Readable(k) == k \in {"file", "readonly"}

\* open(path, 'w') creates a missing file.
Writable(k) == k \in {"file", "unreadable", "missing"}

VARIABLES
    kind,      \* what file_path names
    file,      \* the bytes of the file
    linesep,   \* os.linesep of the platform
    pats,      \* sensitive_patterns of each caller
    quota,     \* the calls each caller makes
    ncalls,    \* the calls each caller has started
    pc,        \* each caller's position in censor_file
    content,   \* the local variable content
    idx,       \* the index of the for loop's next pattern
    rOpen,     \* the handle of open(file_path, 'r') is open
    wOpen,     \* the handle of open(file_path, 'w') is open
    err,       \* the exception that left censor_file
    start,     \* history: the bytes of the file when the call started
    kind0,     \* history: kind at the start
    orig,      \* history: file at the start
    hist,      \* history: the bytes of the file at each return
    wlog       \* history: the truncations and writes, in order

vars == <<kind, file, linesep, pats, quota, ncalls, pc, content, idx, rOpen,
          wOpen, err, start, kind0, orig, hist, wlog>>

InitLocals ==
    /\ ncalls = [p \in Procs |-> 0]
    /\ pc = [p \in Procs |-> "idle"]
    /\ content = [p \in Procs |-> <<>>]
    /\ idx = [p \in Procs |-> 1]
    /\ rOpen = [p \in Procs |-> FALSE]
    /\ wOpen = [p \in Procs |-> FALSE]
    /\ err = [p \in Procs |-> ""]
    /\ start = [p \in Procs |-> <<>>]
    /\ kind0 = kind
    /\ orig = file
    /\ hist = <<>>
    /\ wlog = <<>>

\* One caller, who calls censor_file up to MaxCalls times in a row.
Init ==
    /\ kind \in Kinds
    /\ \E in \in Inputs :
          /\ file = IF kind \in {"missing", "dir"} THEN <<>> ELSE in[1]
          /\ pats = <<in[2], <<>>>>
          /\ kind \in {"missing", "dir"} => in[1] = <<>>
    /\ linesep \in LineSeps
    /\ quota = <<MaxCalls, 0>>
    /\ InitLocals

\* def censor_file(file_path, sensitive_patterns):
Call(p) ==
    /\ pc[p] \in {"idle", "returned"}
    /\ ncalls[p] < quota[p]
    /\ Len(file) <= MaxFileLen
    /\ ncalls' = [ncalls EXCEPT ![p] = @ + 1]
    /\ pc' = [pc EXCEPT ![p] = "open_r"]
    /\ content' = [content EXCEPT ![p] = <<>>]
    /\ idx' = [idx EXCEPT ![p] = 1]
    /\ start' = [start EXCEPT ![p] = file]
    /\ UNCHANGED <<kind, file, linesep, pats, quota, rOpen, wOpen, err,
                   kind0, orig, hist, wlog>>

\* with open(file_path, 'r') as file:
OpenRead(p) ==
    /\ pc[p] = "open_r"
    /\ Readable(kind)
    /\ rOpen' = [rOpen EXCEPT ![p] = TRUE]
    /\ pc' = [pc EXCEPT ![p] = "read"]
    /\ UNCHANGED <<kind, file, linesep, pats, quota, ncalls, content, idx,
                   wOpen, err, start, kind0, orig, hist, wlog>>

\* open(file_path, 'r') raises OSError: nothing is opened.
OpenReadFail(p) ==
    /\ pc[p] = "open_r"
    /\ ~Readable(kind)
    /\ pc' = [pc EXCEPT ![p] = "raised"]
    /\ err' = [err EXCEPT ![p] = "OSError"]
    /\ UNCHANGED <<kind, file, linesep, pats, quota, ncalls, content, idx,
                   rOpen, wOpen, start, kind0, orig, hist, wlog>>

\* content = file.read()
Read(p) ==
    /\ pc[p] = "read"
    /\ content' = [content EXCEPT ![p] = Decode(file)]
    /\ pc' = [pc EXCEPT ![p] = "close_r"]
    /\ UNCHANGED <<kind, file, linesep, pats, quota, ncalls, idx, rOpen,
                   wOpen, err, start, kind0, orig, hist, wlog>>

\* file.read() raises (an I/O or a decoding error): the with statement
\* closes the handle and the error leaves the function.
ReadFail(p) ==
    /\ pc[p] = "read"
    /\ rOpen' = [rOpen EXCEPT ![p] = FALSE]
    /\ pc' = [pc EXCEPT ![p] = "raised"]
    /\ err' = [err EXCEPT ![p] = "ReadError"]
    /\ UNCHANGED <<kind, file, linesep, pats, quota, ncalls, content, idx,
                   wOpen, start, kind0, orig, hist, wlog>>

\* CloseRead with the read handle left open (no with statement).
CloseReadLeaking(p) ==
    /\ pc[p] = "close_r"
    /\ pc' = [pc EXCEPT ![p] = "loop"]
    /\ UNCHANGED <<kind, file, linesep, pats, quota, ncalls, content, idx,
                   rOpen, wOpen, err, start, kind0, orig, hist, wlog>>

\* The end of the first with block closes the read handle.
CloseRead(p) ==
    /\ pc[p] = "close_r"
    /\ rOpen' = [rOpen EXCEPT ![p] = FALSE]
    /\ pc' = [pc EXCEPT ![p] = "loop"]
    /\ UNCHANGED <<kind, file, linesep, pats, quota, ncalls, content, idx,
                   wOpen, err, start, kind0, orig, hist, wlog>>

\* SubPass with a buffer that already holds a placeholder left alone.
SubPassProtecting(p) ==
    /\ pc[p] = "loop"
    /\ idx[p] <= Len(pats[p])
    /\ Compile(pats[p][idx[p]]).ok
    /\ content' = [content EXCEPT
                     ![p] = IF \E i \in 1..Len(@) :
                                  /\ i + Len(Placeholder) - 1 <= Len(@)
                                  /\ SubSeq(@, i, i + Len(Placeholder) - 1) = Placeholder
                            THEN @
                            ELSE Sub(Compile(pats[p][idx[p]]).atoms, @)]
    /\ idx' = [idx EXCEPT ![p] = @ + 1]
    /\ UNCHANGED <<kind, file, linesep, pats, quota, ncalls, pc, rOpen,
                   wOpen, err, start, kind0, orig, hist, wlog>>

\* SubPass with the buffer saved to the file after each pass.
SubPassPersisting(p) ==
    /\ pc[p] = "loop"
    /\ idx[p] <= Len(pats[p])
    /\ Compile(pats[p][idx[p]]).ok
    /\ content' = [content EXCEPT
                     ![p] = Sub(Compile(pats[p][idx[p]]).atoms, @)]
    /\ file' = Encode(content'[p], linesep)
    /\ idx' = [idx EXCEPT ![p] = @ + 1]
    /\ UNCHANGED <<kind, linesep, pats, quota, ncalls, pc, rOpen,
                   wOpen, err, start, kind0, orig, hist, wlog>>

\* for pattern in sensitive_patterns:
\*     content = re.sub(pattern, '[REDACTED]', content)
SubPass(p) ==
    /\ pc[p] = "loop"
    /\ idx[p] <= Len(pats[p])
    /\ Compile(pats[p][idx[p]]).ok
    /\ content' = [content EXCEPT
                     ![p] = Sub(Compile(pats[p][idx[p]]).atoms, @)]
    /\ idx' = [idx EXCEPT ![p] = @ + 1]
    /\ UNCHANGED <<kind, file, linesep, pats, quota, ncalls, pc, rOpen,
                   wOpen, err, start, kind0, orig, hist, wlog>>

\* SubFail with the pattern that does not compile skipped and the loop
\* going on.
SubSkip(p) ==
    /\ pc[p] = "loop"
    /\ idx[p] <= Len(pats[p])
    /\ ~Compile(pats[p][idx[p]]).ok
    /\ idx' = [idx EXCEPT ![p] = @ + 1]
    /\ UNCHANGED <<kind, file, linesep, pats, quota, ncalls, pc, content,
                   rOpen, wOpen, err, start, kind0, orig, hist, wlog>>

\* re.sub raises re.error for a pattern that does not compile.
SubFail(p) ==
    /\ pc[p] = "loop"
    /\ idx[p] <= Len(pats[p])
    /\ ~Compile(pats[p][idx[p]]).ok
    /\ pc' = [pc EXCEPT ![p] = "raised"]
    /\ err' = [err EXCEPT ![p] = "re.error"]
    /\ UNCHANGED <<kind, file, linesep, pats, quota, ncalls, content, idx,
                   rOpen, wOpen, start, kind0, orig, hist, wlog>>

\* OpenWrite with the file opened for update and not truncated ('r+').
OpenWriteKeeping(p) ==
    /\ pc[p] = "loop"
    /\ idx[p] > Len(pats[p])
    /\ Writable(kind)
    /\ kind' = IF kind = "missing" THEN "file" ELSE kind
    /\ wOpen' = [wOpen EXCEPT ![p] = TRUE]
    /\ pc' = [pc EXCEPT ![p] = "write"]
    /\ wlog' = Append(wlog, <<p, "trunc">>)
    /\ UNCHANGED <<file, linesep, pats, quota, ncalls, content, idx, rOpen,
                   err, start, kind0, orig, hist>>

\* with open(file_path, 'w') as file: the file is created or truncated.
OpenWrite(p) ==
    /\ pc[p] = "loop"
    /\ idx[p] > Len(pats[p])
    /\ Writable(kind)
    /\ kind' = IF kind = "missing" THEN "file" ELSE kind
    /\ file' = <<>>
    /\ wOpen' = [wOpen EXCEPT ![p] = TRUE]
    /\ pc' = [pc EXCEPT ![p] = "write"]
    /\ wlog' = Append(wlog, <<p, "trunc">>)
    /\ UNCHANGED <<linesep, pats, quota, ncalls, content, idx, rOpen, err,
                   start, kind0, orig, hist>>

\* open(file_path, 'w') raises OSError: nothing is opened or truncated.
OpenWriteFail(p) ==
    /\ pc[p] = "loop"
    /\ idx[p] > Len(pats[p])
    /\ ~Writable(kind)
    /\ pc' = [pc EXCEPT ![p] = "raised"]
    /\ err' = [err EXCEPT ![p] = "OSError"]
    /\ UNCHANGED <<kind, file, linesep, pats, quota, ncalls, content, idx,
                   rOpen, wOpen, start, kind0, orig, hist, wlog>>

\* Bytes written at offset 0 of a handle: they replace the bytes of the file
\* they cover and leave the bytes after them.
Overlay(bytes, f) == bytes \o SubSeq(f, Len(bytes) + 1, Len(f))

\* file.write(content)
Write(p) ==
    /\ pc[p] = "write"
    /\ file' = Overlay(Encode(content[p], linesep), file)
    /\ pc' = [pc EXCEPT ![p] = "close_w"]
    /\ wlog' = Append(wlog, <<p, "write">>)
    /\ UNCHANGED <<kind, linesep, pats, quota, ncalls, content, idx, rOpen,
                   wOpen, err, start, kind0, orig, hist>>

\* The write raises OSError with a prefix of the bytes written: the with
\* statement closes the handle and the error leaves the function.
WriteFail(p) ==
    /\ pc[p] = "write"
    /\ LET bytes == Encode(content[p], linesep)
       IN  \E n \in 0..Min(MaxPartial, IF bytes = <<>> THEN 0 ELSE Len(bytes) - 1) :
              file' = Overlay(SubSeq(bytes, 1, n), file)
    /\ wOpen' = [wOpen EXCEPT ![p] = FALSE]
    /\ pc' = [pc EXCEPT ![p] = "raised"]
    /\ err' = [err EXCEPT ![p] = "OSError"]
    /\ UNCHANGED <<kind, linesep, pats, quota, ncalls, content, idx, rOpen,
                   start, kind0, orig, hist, wlog>>

\* The end of the second with block closes the write handle; the function
\* returns.
CloseWrite(p) ==
    /\ pc[p] = "close_w"
    /\ wOpen' = [wOpen EXCEPT ![p] = FALSE]
    /\ pc' = [pc EXCEPT ![p] = "returned"]
    /\ hist' = Append(hist, file)
    /\ UNCHANGED <<kind, file, linesep, pats, quota, ncalls, content, idx,
                   rOpen, err, start, kind0, orig, wlog>>

Next ==
    \E p \in Procs :
        \/ Call(p)
        \/ OpenRead(p)
        \/ OpenReadFail(p)
        \/ Read(p)
        \/ ReadFail(p)
        \/ CloseRead(p)
        \/ SubPass(p)
        \/ SubFail(p)
        \/ OpenWrite(p)
        \/ OpenWriteFail(p)
        \/ Write(p)
        \/ WriteFail(p)
        \/ CloseWrite(p)

Spec == Init /\ [][Next]_vars


(***************************************************************************)
(* Two callers, each calling censor_file once on the same path, their      *)
(* steps interleaved.                                                      *)
(***************************************************************************)
ConcContents == {<<"a">>, <<"a", "b">>, <<"a", "a", "b">>}

ConcLists == {<<>>, <<<<"a">>>>, <<<<"b">>>>, <<PatOpenParen>>}

InitConc ==
    /\ kind \in {"file", "readonly", "missing"}
    /\ file \in (IF kind = "missing" THEN {<<>>} ELSE ConcContents)
    /\ pats \in [Procs -> ConcLists]
    /\ linesep = <<"\n">>
    /\ quota = <<1, 1>>
    /\ InitLocals

SpecConc == InitConc /\ [][Next]_vars

(***************************************************************************)
(* The claims.  Unless said otherwise they are about the sequential        *)
(* caller, process 1 of Spec.                                              *)
(***************************************************************************)
FirstCallReturned == pc[1] = "returned" /\ ncalls[1] = 1

\* The index of the first pattern that does not compile.
FirstInvalid(ps) ==
    CHOOSE i \in 1..Len(ps) :
        /\ ~Compile(ps[i]).ok
        /\ \A j \in 1..(i - 1) : Compile(ps[j]).ok

\* C1: after a successful call on content C with patterns [P1, ..., Pn] the
\* file holds pass_n(...pass_1(C)...), each pass scanning the buffer the
\* pass before it produced.
C1_FileHoldsComposedPasses ==
    (FirstCallReturned /\ AllValid(pats[1]))
        => file = ApplyAll(pats[1], orig)

\* The same with the line endings translated as the text-mode read and
\* write translate them.
ComposedPassesOnText ==
    (FirstCallReturned /\ AllValid(pats[1]))
        => file = Encode(ApplyAll(pats[1], Decode(orig)), linesep)

\* The matches of a pattern in s: the positions where it matches.
MatchStarts(atoms, s) == {i \in 1..(Len(s) + 1) : MatchAt(atoms, s, i)}

\* S holds non-overlapping matches, and every match left out starts inside
\* a match of S that starts before it.
LeftmostDisjoint(S, atoms, s) ==
    /\ S \subseteq MatchStarts(atoms, s)
    /\ \A i, j \in S : i < j => i + Len(atoms) <= j
    /\ \A q \in MatchStarts(atoms, s) \ S :
          \E i \in S : i < q /\ q < i + Len(atoms)

\* s with the matches of S replaced by the placeholder, the rest kept in
\* its order.
RECURSIVE Redacted(_, _, _, _)
Redacted(s, S, k, i) ==
    IF i > Len(s) + 1 THEN <<>>
    ELSE (IF i \in S THEN Placeholder ELSE <<>>)
         \o (IF i <= Len(s) /\ ~\E j \in S : j <= i /\ i < j + k
             THEN <<s[i]>> ELSE <<>>)
         \o Redacted(s, S, k, i + 1)

IsRedactionOf(out, s, atoms) ==
    \E S \in SUBSET MatchStarts(atoms, s) :
        /\ LeftmostDisjoint(S, atoms, s)
        /\ out = Redacted(s, S, Len(atoms), 1)

\* C2: after a call with the single pattern P the file holds C with every
\* non-overlapping match of P, found left to right, replaced by the literal
\* "[REDACTED]" and the text outside the matches kept.
C2_SinglePatternRedactsContent ==
    (FirstCallReturned /\ Len(pats[1]) = 1 /\ AllValid(pats[1]))
        => IsRedactionOf(file, orig, Compile(pats[1][1]).atoms)

\* The same with the line endings translated as the text-mode read and
\* write translate them.
SinglePatternRedactsText ==
    (FirstCallReturned /\ Len(pats[1]) = 1 /\ AllValid(pats[1]))
        => \E t \in {Decode(file)} :
              /\ IsRedactionOf(t, Decode(orig), Compile(pats[1][1]).atoms)
              /\ file = Encode(t, linesep)

\* C3: with a pattern that is not a valid regular expression in the list the
\* call raises re.error at the first such pattern, applies no pattern after
\* it, never opens the file for writing and leaves the file as it was.
C3_InvalidPatternAbortsBeforeWrite ==
    ~AllValid(pats[1]) =>
        LET bad == FirstInvalid(pats[1])
        IN  /\ file = orig
            /\ kind = kind0
            /\ wlog = <<>>
            /\ ~wOpen[1]
            /\ pc[1] \notin {"write", "close_w", "returned"}
            /\ idx[1] <= bad
            /\ pc[1] = "loop" =>
                  content[1] = ApplyAll(SubSeq(pats[1], 1, idx[1] - 1),
                                        Decode(orig))
            /\ pc[1] = "raised" =>
                  \/ /\ err[1] = "re.error"
                     /\ idx[1] = bad
                     /\ content[1] = ApplyAll(SubSeq(pats[1], 1, bad - 1),
                                              Decode(orig))
                  \/ /\ err[1] \in {"OSError", "ReadError"}
                     /\ idx[1] = 1
                     /\ content[1] = <<>>

\* A valid pattern was applied and changed the buffer, then the invalid one
\* raised.
C3_Witness ==
    /\ ~AllValid(pats[1])
    /\ pc[1] = "raised"
    /\ err[1] = "re.error"
    /\ idx[1] > 1
    /\ content[1] # Decode(orig)
    /\ file = orig

\* C4: censor_file(F, []) performs one read and one write and leaves the
\* bytes of F unchanged, whatever they are.
C4_EmptyListLeavesBytes ==
    (FirstCallReturned /\ pats[1] = <<>>)
        => /\ file = orig
           /\ wlog = <<<<1, "trunc">>, <<1, "write">>>>

\* C5: on a path that is missing, unreadable or a directory the call raises
\* an I/O error at the open for reading, before any pass and any write; the
\* file is not created and the file system stays as it was.
C5_UnreadablePathFailsAtOpen ==
    kind0 \in {"missing", "unreadable", "dir"} =>
        /\ kind = kind0
        /\ file = orig
        /\ wlog = <<>>
        /\ ~rOpen[1] /\ ~wOpen[1]
        /\ pc[1] \in {"idle", "open_r", "raised"}
        /\ idx[1] = 1
        /\ content[1] = <<>>
        /\ pc[1] = "raised" => err[1] = "OSError"

C5_Witness ==
    /\ kind0 = "missing"
    /\ pc[1] = "raised"
    /\ err[1] = "OSError"
    /\ kind = "missing"


(***************************************************************************)
(* Which characters of a buffer belong to a placeholder: marks is a        *)
(* sequence of booleans as long as the buffer.                             *)
(***************************************************************************)
PlaceholderMarks == [i \in 1..Len(Placeholder) |-> TRUE]

SubMarks(atoms, s, marks) ==
    Build(marks, PlaceholderMarks, Scan(atoms, s), Len(atoms))

\* A match of the scan includes a placeholder character, or is an empty match
\* next to one.
Touches(atoms, s, marks) ==
    LET starts == Scan(atoms, s)
    IN  \E n \in 1..Len(starts) :
           IF atoms = <<>>
           THEN \/ starts[n] <= Len(s) /\ marks[starts[n]]
                \/ starts[n] > 1 /\ marks[starts[n] - 1]
           ELSE \E j \in starts[n]..(starts[n] + Len(atoms) - 1) : marks[j]

\* The marks after all the passes.
RECURSIVE MarksAfter(_, _, _)
MarksAfter(ps, s, marks) ==
    IF ps = <<>> THEN marks
    ELSE MarksAfter(Tail(ps), Sub(Compile(ps[1]).atoms, s),
                    SubMarks(Compile(ps[1]).atoms, s, marks))

\* Some pass over s finds a match that touches a placeholder character.
RECURSIVE SomePassTouches(_, _, _)
SomePassTouches(ps, s, marks) ==
    IF ps = <<>> THEN FALSE
    ELSE \/ Touches(Compile(ps[1]).atoms, s, marks)
         \/ SomePassTouches(Tail(ps), Sub(Compile(ps[1]).atoms, s),
                            SubMarks(Compile(ps[1]).atoms, s, marks))

\* In a second call, a match touches a placeholder the first call inserted.
SecondCallTouchesPlaceholder(ps, text) ==
    SomePassTouches(ps, ApplyAll(ps, text),
                    MarksAfter(ps, text, [i \in 1..Len(text) |-> FALSE]))

\* The pattern matches some text of s (the empty text included).
MatchesIn(atoms, s) == \E i \in 1..(Len(s) + 1) : MatchAt(atoms, s, i)

\* C6 as claimed: two calls in a row with the same patterns leave the same
\* content whenever no pattern matches any text of "[REDACTED]".
C6_IdempotentIfNoMatchInPlaceholder ==
    (Len(hist) >= 2
        /\ \A i \in 1..Len(pats[1]) :
              ~MatchesIn(Compile(pats[1][i]).atoms, Placeholder))
        => hist[2] = hist[1]

\* C6 as amended: two calls in a row with the same patterns leave the same
\* content whenever no match of the second call includes a character of a
\* placeholder the first call inserted (or, for an empty match, lies next to
\* one).
C6_IdempotentIfNoMatchTouchesPlaceholder ==
    (Len(hist) >= 2
        /\ ~SecondCallTouchesPlaceholder(pats[1], Decode(orig)))
        => hist[2] = hist[1]

\* The first call inserted a placeholder and the second one left it alone.
C6_Witness ==
    /\ Len(hist) >= 2
    /\ ~SecondCallTouchesPlaceholder(pats[1], Decode(orig))
    /\ Decode(hist[1]) # Decode(orig)
    /\ hist[2] = hist[1]

\* C7: when a pattern matches inside the placeholder, the second call
\* changes the placeholders the first call wrote: content "[RED" with
\* pattern "RED" is "[[REDACTED]" after the first call and
\* "[[[REDACTED]ACTED]" after the second; and so for every pattern list of
\* the model (whose matches are all shorter than the placeholder) once the
\* first call has replaced something.
C7_SecondCallMutatesPlaceholders ==
    Len(hist) >= 2 =>
        /\ (orig = ContentBracketRed /\ pats[1] = <<PatRED>>) =>
              /\ hist[1] = <<"[">> \o Placeholder
              /\ hist[2] = <<"[", "[">> \o Placeholder
                             \o <<"A", "C", "T", "E", "D", "]">>
        /\ (/\ \E i \in 1..Len(pats[1]) :
                  MatchesIn(Compile(pats[1][i]).atoms, Placeholder)
            /\ \A i \in 1..Len(pats[1]) :
                  Len(Compile(pats[1][i]).atoms) < Len(Placeholder)
            /\ Decode(hist[1]) # Decode(orig))
              => hist[2] # hist[1]

C7_Witness ==
    /\ Len(hist) >= 2
    /\ orig = ContentBracketRed
    /\ pats[1] = <<PatRED>>
    /\ hist[2] # hist[1]

\* p is a prefix of s.
IsPrefix(p, s) == Len(p) <= Len(s) /\ SubSeq(s, 1, Len(p)) = p

\* The buffer the current call writes: every pattern applied.
FinalBytes == Encode(ApplyAll(pats[1], Decode(start[1])), linesep)

\* C9: a failing write is not retried or rolled back, and in every state the
\* file holds what it held when the call started, a prefix of the fully
\* substituted buffer, or that buffer; never a buffer with only some of the
\* patterns applied.
C9_FileIsOriginalOrPrefixOfFinal ==
    /\ ncalls[1] >= 1 =>
          \/ file = start[1]
          \/ AllValid(pats[1]) /\ IsPrefix(file, FinalBytes)
    /\ (pc[1] = "raised" /\ wlog # <<>> /\ wlog[Len(wlog)] = <<1, "trunc">>) =>
          /\ err[1] = "OSError"
          /\ ~wOpen[1]
          /\ IsPrefix(file, FinalBytes)
    /\ pc[1] = "raised" => ~ENABLED Next

\* The write failed and left a proper, non-empty prefix of the buffer in
\* place of the original content.
C9_Witness ==
    /\ pc[1] = "raised"
    /\ wlog # <<>>
    /\ file # start[1]
    /\ file # <<>>
    /\ file # FinalBytes
    /\ Len(pats[1]) = 2
    /\ file # Encode(ApplyAll(SubSeq(pats[1], 1, 1), Decode(start[1])), linesep)

\* The write failed and left the file empty.
C9_WitnessEmpty ==
    /\ pc[1] = "raised"
    /\ wlog # <<>>
    /\ start[1] # <<>>
    /\ file = <<>>

\* C10: the read handle and the write handle of a call are never open
\* together: the read handle is closed before the write handle is opened,
\* and no handle is open once the call has returned or raised.
C10_HandlesNeverOverlap ==
    \A p \in Procs :
        /\ ~(rOpen[p] /\ wOpen[p])
        /\ rOpen[p] <=> pc[p] \in {"read", "close_r"}
        /\ wOpen[p] <=> pc[p] \in {"write", "close_w"}
        /\ pc[p] \in {"idle", "returned", "raised"} => ~rOpen[p] /\ ~wOpen[p]

C10_Witness ==
    /\ wOpen[1]
    /\ ~rOpen[1]
    /\ content[1] # <<>>


(***************************************************************************)
(* The concurrent callers of SpecConc.                                     *)
(***************************************************************************)
BothReturned == pc[1] = "returned" /\ pc[2] = "returned"

\* The place of an event in the log of truncations and writes.
PosOf(e) == CHOOSE n \in 1..Len(wlog) : wlog[n] = e

\* The caller whose write came last, and the other one.
LastWriter == wlog[Len(wlog)][1]

OtherWriter == CHOOSE p \in Procs : p # LastWriter

\* The bytes a caller wrote.
BytesOf(p) == Encode(content[p], linesep)

\* C8 as claimed: after two concurrent calls on the same path have both
\* completed, the file holds exactly the buffer written by the call whose
\* write came last.
C8_LastWriterWinsExactly ==
    BothReturned => file = BytesOf(LastWriter)

\* C8 as amended: the file begins with the buffer of the last writer and is
\* exactly that buffer when the last writer opened (truncated) the file after
\* the other call's write; when both opens precede both writes, the bytes of
\* the earlier write beyond the length of the later one stay in the file.
C8_LastWriterOverlaysEarlierWrite ==
    BothReturned =>
        /\ IsPrefix(BytesOf(LastWriter), file)
        /\ file = IF PosOf(<<OtherWriter, "write">>) < PosOf(<<LastWriter, "trunc">>)
                  THEN BytesOf(LastWriter)
                  ELSE Overlay(BytesOf(LastWriter), BytesOf(OtherWriter))

\* Both calls completed and the file is neither call's buffer: the tail of
\* the earlier, longer write follows the later one.
C8_Witness ==
    /\ BothReturned
    /\ file # BytesOf(LastWriter)
    /\ file # BytesOf(OtherWriter)
    /\ IsPrefix(BytesOf(LastWriter), file)

\* Both calls completed, the last writer's buffer is the whole file and the
\* other call's redactions are lost.
C8_WitnessLost ==
    /\ BothReturned
    /\ file = BytesOf(LastWriter)
    /\ content[OtherWriter] # Decode(orig)
    /\ content[LastWriter] = Decode(orig)

=============================================================================
